---- MODULE Spec2Model ----
(***************************************************************************)
(* A model of the exchange-rate pipeline: the Producer Lambda              *)
(* (lambda/data_producer.py) that fetches a quote, normalises it and       *)
(* publishes it to a Kinesis stream, and the Consumer Lambda               *)
(* (lambda/data_consumer.py) that decodes a batch of stream envelopes,     *)
(* writes each item to a DynamoDB table and deletes the envelope.          *)
(*                                                                         *)
(* Python strings are sequences of one-character strings, Python dicts are *)
(* functions from keys to values, and a dict whose iteration order matters *)
(* (the provider response) is a sequence of <<key, value>> pairs.          *)
(***************************************************************************)
EXTENDS Integers, Sequences, FiniteSets, TLC

(***************************************************************************)
(* Bounds of the model.                                                    *)
(***************************************************************************)
MaxInvocations == 2

MaxBatch == 3

MaxConcurrentBatch == 2

(***************************************************************************)
(* str methods used by cleanup (data_producer.py line 32).                 *)
(***************************************************************************)
UpperCase == <<"A", "B", "C", "D", "E", "F", "G", "H", "I", "J", "K", "L", "M", "N", "O", "P", "Q", "R", "S", "T", "U", "V", "W", "X", "Y", "Z">>

LowerCase == <<"a", "b", "c", "d", "e", "f", "g", "h", "i", "j", "k", "l", "m", "n", "o", "p", "q", "r", "s", "t", "u", "v", "w", "x", "y", "z">>

DigitChars == {"0", "1", "2", "3", "4", "5", "6", "7", "8", "9"}

\* the characters str.strip() removes, among those the model's strings use
Whitespace == {" ", "\t", "\n"}

lower_char(c) ==
  IF \E i \in 1..Len(UpperCase) : UpperCase[i] = c
    THEN LowerCase[CHOOSE i \in 1..Len(UpperCase) : UpperCase[i] = c]
    ELSE c

\* str.lower()
lower(s) == [i \in 1..Len(s) |-> lower_char(s[i])]

\* key.split('.')[-1]: what follows the last '.', the whole key without one
split_last(s) ==
  LET dots == {i \in 1..Len(s) : s[i] = "."}
      last == IF dots = {} THEN 0 ELSE CHOOSE i \in dots : \A j \in dots : j <= i
  IN  SubSeq(s, last + 1, Len(s))

\* str.strip(): leading and trailing whitespace removed
strip(s) ==
  LET keep == {i \in 1..Len(s) : s[i] \notin Whitespace}
  IN  IF keep = {} THEN <<>>
      ELSE SubSeq(s, CHOOSE i \in keep : \A j \in keep : i <= j,
                     CHOOSE i \in keep : \A j \in keep : j <= i)

\* str.replace(" ", "_"): every space character becomes one underscore
replace_space(s) == [i \in 1..Len(s) |-> IF s[i] = " " THEN "_" ELSE s[i]]

\* a faulty variant of slug that takes the first segment of the label: split('.')[0]
slug_first_segment(key) ==
  LET dots  == {i \in 1..Len(key) : key[i] = "."}
      first == IF dots = {} THEN Len(key) + 1 ELSE CHOOSE i \in dots : \A j \in dots : i <= j
  IN  lower(replace_space(strip(SubSeq(key, 1, first - 1))))

\* key.split('.')[-1].strip().replace(" ", "_").lower()
slug(key) == lower(replace_space(strip(split_last(key))))

(***************************************************************************)
(* Numbers.  A finite number is [kind |-> "fin", neg, digs, scale]: the    *)
(* decimal (-1)^neg * digs / 10^scale, digs a digit string without leading *)
(* zeros and, when scale > 0, without a trailing zero, so that equal       *)
(* records are equal decimal values.  Digit strings keep every digit: no   *)
(* machine integer stands for a 16-digit value.                            *)
(***************************************************************************)
RECURSIVE DropTrailingZeros(_, _)
DropTrailingZeros(d, scale) ==
  IF scale > 0 /\ Len(d) > 0 /\ d[Len(d)] = "0"
    THEN DropTrailingZeros(SubSeq(d, 1, Len(d) - 1), scale - 1)
    ELSE <<d, scale>>

RECURSIVE DropLeadingZeros(_)
DropLeadingZeros(d) ==
  IF d = <<>> THEN <<"0">>
  ELSE IF Len(d) > 1 /\ d[1] = "0" THEN DropLeadingZeros(Tail(d))
  ELSE d

Fin(neg, alldigits, scale) ==
  LET t == DropTrailingZeros(alldigits, scale)
  IN  [kind |-> "fin", neg |-> neg, digs |-> DropLeadingZeros(t[1]), scale |-> t[2]]

Special(kind, neg) == [kind |-> kind, neg |-> neg, digs |-> <<>>, scale |-> 0]

\* the literal without surrounding whitespace and without its sign
LiteralBody(s) ==
  LET t == strip(s)
  IN  IF Len(t) > 0 /\ t[1] \in {"+", "-"} THEN Tail(t) ELSE t

LiteralNeg(s) == LET t == strip(s) IN Len(t) > 0 /\ t[1] = "-"

\* digits with at most one '.', at least one digit ("1", "1.", ".5", "0.50")
IsDecimalLiteral(b) ==
  /\ \A i \in 1..Len(b) : b[i] \in DigitChars \cup {"."}
  /\ Cardinality({i \in 1..Len(b) : b[i] = "."}) <= 1
  /\ \E i \in 1..Len(b) : b[i] \in DigitChars

IsNanLiteral(b) == lower(b) = <<"n", "a", "n">>

IsInfLiteral(b) == lower(b) \in {<<"i", "n", "f">>, <<"i", "n", "f", "i", "n", "i", "t", "y">>}

\* the exact decimal value of a decimal literal: decimal.Decimal(text)
DecimalOf(s) ==
  LET b    == LiteralBody(s)
      dots == {i \in 1..Len(b) : b[i] = "."}
      p    == IF dots = {} THEN Len(b) + 1 ELSE CHOOSE i \in dots : TRUE
      int  == SubSeq(b, 1, p - 1)
      frac == SubSeq(b, p + 1, Len(b))
  IN  Fin(LiteralNeg(s), int \o frac, Len(frac))

\* 2^53 = 9007199254740992: from here on binary64 holds only even integers
TwoTo53 == <<"9", "0", "0", "7", "1", "9", "9", "2", "5", "4", "7", "4", "0", "9", "9", "2">>

DigitValue(c) == CHOOSE n \in 0..9 : <<"0", "1", "2", "3", "4", "5", "6", "7", "8", "9">>[n + 1] = c

DigitChar(n) == <<"0", "1", "2", "3", "4", "5", "6", "7", "8", "9">>[n + 1]

\* a >= b for digit strings of equal length
RECURSIVE DigitsGE(_, _)
DigitsGE(a, b) ==
  IF a = <<>> THEN TRUE
  ELSE IF a[1] # b[1] THEN DigitValue(a[1]) > DigitValue(b[1])
  ELSE DigitsGE(Tail(a), Tail(b))

\* d + 1 on a digit string
RECURSIVE Incr(_)
Incr(d) ==
  IF d = <<>> THEN <<"1">>
  ELSE IF d[Len(d)] = "9" THEN Append(Incr(SubSeq(d, 1, Len(d) - 1)), "0")
  ELSE [d EXCEPT ![Len(d)] = DigitChar(DigitValue(d[Len(d)]) + 1)]

\* d - 1 on a digit string that does not end in 0
Decr(d) == [d EXCEPT ![Len(d)] = DigitChar(DigitValue(d[Len(d)]) - 1)]

\* d mod 4, from its last two digits
Mod4(d) ==
  (10 * (IF Len(d) > 1 THEN DigitValue(d[Len(d) - 1]) ELSE 0) + DigitValue(d[Len(d)])) % 4

(***************************************************************************)
(* float(text) as the decimal value of the binary64 it yields, for the     *)
(* literals of the model: those of at most 15 significant digits, which    *)
(* binary64 tells apart (DBL_DIG), so that repr gives the literal's value  *)
(* back, and the whole numbers of 16 digits, which are exact below 2^53    *)
(* and rounded to the nearest even significand, that is to a multiple of   *)
(* 2 (ties to the multiple of 4), from 2^53 up to 10^16.                   *)
(***************************************************************************)
RoundBinary64(d) ==
  IF /\ d.scale = 0
     /\ Len(d.digs) = Len(TwoTo53)
     /\ DigitsGE(d.digs, TwoTo53)
     /\ Mod4(d.digs) \in {1, 3}
    THEN [d EXCEPT !.digs = IF Mod4(d.digs) = 1 THEN Decr(d.digs) ELSE Incr(d.digs)]
    ELSE d

\* whether float(value) returns (True) or raises ValueError (False), for the
\* model's strings: none writes an exponent or groups digits with '_'
float_accepts(value) ==
  LET b == LiteralBody(value)
  IN  IsDecimalLiteral(b) \/ IsNanLiteral(b) \/ IsInfLiteral(b)

\* float(value), for a value float accepts
float(value) ==
  LET b == LiteralBody(value)
  IN  IF IsNanLiteral(b) THEN Special("nan", FALSE)
      ELSE IF IsInfLiteral(b) THEN Special("inf", LiteralNeg(value))
      ELSE RoundBinary64(DecimalOf(value))

(***************************************************************************)
(* Values of a record: [t |-> "str" | "float" | "Decimal" | "int", v].     *)
(***************************************************************************)
PyStr(s) == [t |-> "str", v |-> s]

PyFloat(n) == [t |-> "float", v |-> n]

PyDecimal(n) == [t |-> "Decimal", v |-> n]

PyInt(n) == [t |-> "int", v |-> n]

\* parseFloat: float(value), or the value itself when float raises ValueError
parseFloat(value) ==
  IF float_accepts(value) THEN PyFloat(float(value)) ELSE PyStr(value)

(***************************************************************************)
(* dict operations.                                                        *)
(***************************************************************************)
EmptyDict == <<>>

DictSet(d, k, v) == [x \in (DOMAIN d) \cup {k} |-> IF x = k THEN v ELSE d[x]]

\* dict.update(e): the entries of e replace those of d
DictUpdate(d, e) ==
  [x \in (DOMAIN d) \cup (DOMAIN e) |-> IF x \in DOMAIN e THEN e[x] ELSE d[x]]

\* the loop of cleanup over the first n fields of the response, in order
RECURSIVE cleanup_loop(_, _)
cleanup_loop(object, n) ==
  IF n = 0 THEN EmptyDict
  ELSE DictSet(cleanup_loop(object, n - 1), slug(object[n][1]), parseFloat(object[n][2]))

cleanup(object) == cleanup_loop(object, Len(object))

(***************************************************************************)
(* json.dumps(record) and json.loads(data, parse_float=Decimal).  The JSON *)
(* text of an object is kept as its members: a function from each key to   *)
(* the characters of the member's value.  The model's strings hold no      *)
(* character that json.dumps escapes.                                      *)
(***************************************************************************)
Quote == "\""

\* float.__repr__ as json.dumps writes it, for 0 and for 1e-4 <= |x| < 1e16
FloatRepr(f) ==
  IF f.kind = "nan" THEN <<"N", "a", "N">>
  ELSE IF f.kind = "inf" THEN (IF f.neg THEN <<"-", "I", "n", "f", "i", "n", "i", "t", "y">> ELSE <<"I", "n", "f", "i", "n", "i", "t", "y">>)
  ELSE LET n    == Len(f.digs)
           sign == IF f.neg THEN <<"-">> ELSE <<>>
       IN  IF f.scale = 0 THEN sign \o f.digs \o <<".", "0">>
           ELSE IF n > f.scale
             THEN sign \o SubSeq(f.digs, 1, n - f.scale) \o <<".">>
                       \o SubSeq(f.digs, n - f.scale + 1, n)
           ELSE sign \o <<"0", ".">> \o [i \in 1..(f.scale - n) |-> "0"] \o f.digs

json_dumps_value(x) ==
  IF x.t = "str" THEN <<Quote>> \o x.v \o <<Quote>> ELSE FloatRepr(x.v)

json_dumps(record) == [k \in DOMAIN record |-> json_dumps_value(record[k])]

\* one member's value parsed: a string, a constant (parse_constant is left at
\* its default, float), a number with a fraction (parse_float=Decimal) or an int
json_loads_value(text) ==
  IF text[1] = Quote THEN PyStr(SubSeq(text, 2, Len(text) - 1))
  ELSE IF text = <<"N", "a", "N">> THEN PyFloat(Special("nan", FALSE))
  ELSE IF text \in {<<"I", "n", "f", "i", "n", "i", "t", "y">>, <<"-", "I", "n", "f", "i", "n", "i", "t", "y">>} THEN PyFloat(Special("inf", text[1] = "-"))
  ELSE IF \E i \in 1..Len(text) : text[i] = "." THEN PyDecimal(DecimalOf(text))
  ELSE PyInt(DecimalOf(text))

json_loads(members) == [k \in DOMAIN members |-> json_loads_value(members[k])]

(***************************************************************************)
(* The Producer: lambda/data_producer.py.                                  *)
(***************************************************************************)
\* the values the stored secret takes
Secrets == {"key-v1", "key-v2"}

\* "{conversion: {from, to}}" requests
Events ==
  { [from |-> <<"U", "S", "D">>, to |-> <<"E", "U", "R">>],
    [from |-> <<"E", "U", "R">>, to |-> <<"J", "P", "Y">>] }

\* datetime.now().isoformat()
Timestamps == {<<"2", "0", "2", "4", "-", "0", "1", "-", "1", "5", "T", "1", "0", ":", "0", "0", ":", "0", "1">>}

\* what fx.get_currency_exchange_rate may return: labelled fields, in order
ProviderResponses ==
  { << <<<<"5", ".", " ", "E", "x", "c", "h", "a", "n", "g", "e", " ", "R", "a", "t", "e">>, <<"0", ".", "9", "2", "1", "5", "0", "0", "0", "0">>>>,
       <<<<"6", ".", " ", "L", "a", "s", "t", " ", "R", "e", "f", "r", "e", "s", "h", "e", "d">>, <<"2", "0", "2", "4", "-", "0", "1", "-", "1", "5", " ", "1", "0", ":", "0", "0", ":", "0", "0">>>> >>,
    << <<<<"L", "a", "s", "t", " ", "r", "e", "f", "r", "e", "s", "h", "e", "d">>, <<"2", "0", "2", "4", "-", "0", "1", "-", "1", "6">>>>,
       <<<<"6", ".", " ", "L", "a", "s", "t", " ", "R", "e", "f", "r", "e", "s", "h", "e", "d">>, <<"2", "0", "2", "4", "-", "0", "1", "-", "1", "5", " ", "1", "0", ":", "0", "0", ":", "0", "0">>>>,
       <<<<"a", ".", "b", ".", " ", "T", "i", "c", "k", "e", "r", " ">>, <<"X", "Y", "Z">>>>,
       <<<<"9", ".", " ", "F", "r", "o", "m", "_", "S", "y", "m", "b", "o", "l">>, <<"N", "/", "A">>>>,
       <<<<"8", ".", " ", "B", "i", "d", " ", "P", "r", "i", "c", "e">>, <<" ", "1", "2", " ">>>> >>,
    << <<<<"5", ".", " ", "E", "x", "c", "h", "a", "n", "g", "e", " ", "R", "a", "t", "e">>, <<"9", "0", "0", "7", "1", "9", "9", "2", "5", "4", "7", "4", "0", "9", "9", "3">>>>,
       <<<<"6", ".", " ", "L", "a", "s", "t", " ", "R", "e", "f", "r", "e", "s", "h", "e", "d">>, <<"2", "0", "2", "4", "-", "0", "1">>>> >>,
    << <<<<"6", ".", " ", "L", "a", "s", "t", " ", "R", "e", "f", "r", "e", "s", "h", "e", "d">>, <<"2", "0", "2", "4", "0", "1", "1", "5">>>> >>,
    << <<<<"8", ".", " ", " ", "B", "i", "d", " ", " ", "P", "r", "i", "c", "e">>, <<"-", "0", ".", "0", "0", "5">>>>,
       <<<<"5", ".", " ", "E", "x", "c", "h", "a", "n", "g", "e", " ", "R", "a", "t", "e">>, <<"1", ".", "1", "0">>>>,
       <<<<"9", ".", " ", "A", "s", "k", " ", "P", "r", "i", "c", "e">>, <<"n", "a", "n">>>> >> }

K_last_refreshed == <<"l", "a", "s", "t", "_", "r", "e", "f", "r", "e", "s", "h", "e", "d">>

K_timestamp == <<"t", "i", "m", "e", "s", "t", "a", "m", "p">>

K_from_symbol == <<"f", "r", "o", "m", "_", "s", "y", "m", "b", "o", "l">>

K_to_symbol == <<"t", "o", "_", "s", "y", "m", "b", "o", "l">>

K_ticker == <<"t", "i", "c", "k", "e", "r">>

VARIABLES
  secret_arn,        \* whether ALPHA_VANTAGE_SECRET_ARN is set in the environment
  secretString,      \* the secret's value in the secret store, now
  pstate,            \* the process: "cold", "ready" (module loaded), "crashed", "off"
  alpha_vantage_key, \* the module-level cached key
  secretReads,       \* get_secret_value calls issued by the process
  secretAtStart,     \* the secret's value when the module was loaded
  providerLog,       \* every provider call of the process: its key, and the stored secret then
  kstream,           \* the destination stream: the messages appended, in order
  nInvocations,      \* invocations the process has been handed
  ppc,               \* the invocation: "idle", "fetch", "publish", "published", "done", "failed"
  event,             \* the invocation's request
  data,              \* the provider's response
  slugified_data,    \* cleanup(data), before the added fields
  record,            \* fetch_exchange_rate's result
  date_timestamp,    \* handle_event's partition key
  handled,           \* what handle_event returned to lambda_handler
  response,          \* the invocation's outcome: "none", "200" or "error"
  body,              \* the body of a 200 response
  provCalls,         \* provider calls of this invocation
  pubCalls,          \* put_record calls of this invocation
  failure,           \* where this invocation failed: "none", "provider", "lookup", "publish"
  streamAtStart      \* Len(kstream) when this invocation began

pvars ==
  << secret_arn, secretString, pstate, alpha_vantage_key, secretReads, secretAtStart,
     providerLog, kstream, nInvocations, ppc, event, data,
     slugified_data, record, date_timestamp, handled, response, body, provCalls,
     pubCalls, failure, streamAtStart >>

invocationVars ==
  << ppc, event, data, slugified_data, record, date_timestamp, handled, response, body,
     provCalls, pubCalls, failure, streamAtStart >>

VARIABLES
  cpc,         \* each invocation: "idle", "loop", "put", "del", "done", "failed"
  batch,       \* event['Records']
  idx,         \* the position in the batch of the envelope in hand
  item,        \* the item decoded from the envelope in hand
  ctrace,      \* each invocation's external calls and their returns, in order
  cfail,       \* what failed: "none", "decode", "put", "delete"
  cresponse,   \* "none", "200" or "error"
  table,       \* the key-value table: primary key -> item
  lastApplied, \* primary key -> the envelope whose write the table applied last
  deleted      \* the sequence identifiers deleted from the stream

cvars == << cpc, batch, idx, item, ctrace, cfail, cresponse, table, lastApplied, deleted >>

NoEvent == [from |-> <<>>, to |-> <<>>]

InitProducerVars(arns, secrets, state) ==
  /\ secret_arn \in arns
  /\ secretString \in secrets
  /\ pstate = state
  /\ alpha_vantage_key = "unset"
  /\ secretReads = 0
  /\ secretAtStart = "unset"
  /\ providerLog = <<>>
  /\ kstream = <<>>
  /\ nInvocations = 0
  /\ ppc = "idle"
  /\ event = NoEvent
  /\ data = <<>>
  /\ slugified_data = EmptyDict
  /\ record = EmptyDict
  /\ date_timestamp = <<>>
  /\ handled = EmptyDict
  /\ response = "none"
  /\ body = EmptyDict
  /\ provCalls = 0
  /\ pubCalls = 0
  /\ failure = "none"
  /\ streamAtStart = 0

\* a faulty variant of get_alpha_vantage_key without the check of secret_arn
get_alpha_vantage_key_unchecked ==
  /\ pstate = "cold"
  /\ secretReads' = secretReads + 1
  /\ \/ /\ secret_arn
        /\ alpha_vantage_key' = secretString
        /\ secretAtStart' = secretString
        /\ pstate' = "ready"
     \/ /\ pstate' = "crashed"
        /\ UNCHANGED <<alpha_vantage_key, secretAtStart>>
  /\ UNCHANGED <<secret_arn, secretString, providerLog, kstream, nInvocations>>
  /\ UNCHANGED invocationVars
  /\ UNCHANGED cvars

\* the module's load: alpha_vantage_key = get_alpha_vantage_key()
get_alpha_vantage_key ==
  /\ pstate = "cold"
  /\ \/ /\ ~secret_arn                          \* raise ValueError
        /\ pstate' = "crashed"
        /\ UNCHANGED <<alpha_vantage_key, secretAtStart, secretReads>>
     \/ /\ secret_arn                           \* get_secret_value returns
        /\ secretReads' = secretReads + 1
        /\ alpha_vantage_key' = secretString
        /\ secretAtStart' = secretString
        /\ pstate' = "ready"
     \/ /\ secret_arn                           \* get_secret_value raises
        /\ secretReads' = secretReads + 1
        /\ pstate' = "crashed"
        /\ UNCHANGED <<alpha_vantage_key, secretAtStart>>
  /\ UNCHANGED <<secret_arn, secretString, providerLog, kstream, nInvocations>>
  /\ UNCHANGED invocationVars
  /\ UNCHANGED cvars

\* the environment rotates the stored secret
RotateSecret ==
  /\ pstate \in {"cold", "ready", "crashed"}
  /\ secretString' \in Secrets \ {secretString}
  /\ UNCHANGED <<secret_arn, pstate, alpha_vantage_key, secretReads, secretAtStart,
                 providerLog, kstream, nInvocations>>
  /\ UNCHANGED invocationVars
  /\ UNCHANGED cvars

\* the runtime hands the loaded module an event: lambda_handler(event, context)
Invoke(e) ==
  /\ pstate = "ready"
  /\ ppc \in {"idle", "done", "failed"}
  /\ nInvocations < MaxInvocations
  /\ nInvocations' = nInvocations + 1
  /\ ppc' = "fetch"
  /\ event' = e
  /\ data' = <<>>
  /\ slugified_data' = EmptyDict
  /\ record' = EmptyDict
  /\ date_timestamp' = <<>>
  /\ handled' = EmptyDict
  /\ response' = "none"
  /\ body' = EmptyDict
  /\ provCalls' = 0
  /\ pubCalls' = 0
  /\ failure' = "none"
  /\ streamAtStart' = Len(kstream)
  /\ UNCHANGED <<secret_arn, secretString, pstate, alpha_vantage_key, secretReads,
                 secretAtStart, providerLog, kstream>>
  /\ UNCHANGED cvars

\* a faulty variant of api_key that reads the secret store at every call
api_key_fresh == secretString

\* ForeignExchange(key=alpha_vantage_key)
api_key == alpha_vantage_key

\* the fields fetch_exchange_rate adds
added_fields(e, ts) ==
  (K_timestamp :> PyStr(ts)) @@ (K_from_symbol :> PyStr(e.from))
    @@ (K_to_symbol :> PyStr(e.to)) @@ (K_ticker :> PyStr(e.from \o <<"/">> \o e.to))

\* a faulty variant of fetch_exchange_rate in which the provider's fields win
fetch_exchange_rate_provider_wins(e, d, ts) == DictUpdate(added_fields(e, ts), cleanup(d))

\* fetch_exchange_rate's result for provider response d at time ts
fetch_exchange_rate(e, d, ts) == DictUpdate(cleanup(d), added_fields(e, ts))

DatePrefixLen == 10

\* s[0:10]
date_prefix(s) == SubSeq(s, 1, IF Len(s) < DatePrefixLen THEN Len(s) ELSE DatePrefixLen)

\* the provider answers; handle_event reads record['last_refreshed'][0:10]
fetch_returns(d, ts) ==
  /\ ppc = "fetch"
  /\ providerLog' = Append(providerLog, [key |-> api_key, stored |-> secretString])
  /\ provCalls' = provCalls + 1
  /\ data' = d
  /\ slugified_data' = cleanup(d)
  /\ LET r == fetch_exchange_rate(event, d, ts)
     IN  /\ record' = r
         /\ IF K_last_refreshed \in DOMAIN r /\ r[K_last_refreshed].t = "str"
              THEN /\ date_timestamp' = date_prefix(r[K_last_refreshed].v)
                   /\ ppc' = "publish"
                   /\ UNCHANGED <<failure, response>>
              ELSE /\ ppc' = "failed"             \* KeyError, or TypeError on a float
                   /\ failure' = "lookup"
                   /\ response' = "error"
                   /\ UNCHANGED date_timestamp
  /\ UNCHANGED <<secret_arn, secretString, pstate, alpha_vantage_key, secretReads,
                 secretAtStart, kstream, nInvocations, event, handled, body,
                 pubCalls, streamAtStart>>
  /\ UNCHANGED cvars

\* the provider call raises
fetch_raises ==
  /\ ppc = "fetch"
  /\ providerLog' = Append(providerLog, [key |-> api_key, stored |-> secretString])
  /\ provCalls' = provCalls + 1
  /\ ppc' = "failed"
  /\ failure' = "provider"
  /\ response' = "error"
  /\ UNCHANGED <<secret_arn, secretString, pstate, alpha_vantage_key, secretReads,
                 secretAtStart, kstream, nInvocations, event, data, slugified_data,
                 record,
                 date_timestamp, handled, body, pubCalls, streamAtStart>>
  /\ UNCHANGED cvars

Message(r, key) == [Data |-> json_dumps(r), PartitionKey |-> key]

\* a faulty variant of put_record_returns that sends the message again
put_record_returns_twice ==
  /\ ppc = "publish"
  /\ pubCalls' = pubCalls + 2
  /\ kstream' = kstream \o <<Message(record, date_timestamp), Message(record, date_timestamp)>>
  /\ handled' = record
  /\ ppc' = "published"
  /\ UNCHANGED <<secret_arn, secretString, pstate, alpha_vantage_key, secretReads,
                 secretAtStart, providerLog, nInvocations, event, data, slugified_data,
                 record,
                 date_timestamp, response, body, provCalls, failure, streamAtStart>>
  /\ UNCHANGED cvars

\* kinesis_client.put_record returns; handle_event returns record
put_record_returns ==
  /\ ppc = "publish"
  /\ pubCalls' = pubCalls + 1
  /\ kstream' = Append(kstream, Message(record, date_timestamp))
  /\ handled' = record
  /\ ppc' = "published"
  /\ UNCHANGED <<secret_arn, secretString, pstate, alpha_vantage_key, secretReads,
                 secretAtStart, providerLog, nInvocations, event, data, slugified_data,
                 record,
                 date_timestamp, response, body, provCalls, failure, streamAtStart>>
  /\ UNCHANGED cvars

\* a faulty variant of put_record_raises that calls put_record again
put_record_raises_retry ==
  /\ ppc = "publish"
  /\ pubCalls' = pubCalls + 1
  /\ UNCHANGED <<secret_arn, secretString, pstate, alpha_vantage_key, secretReads,
                 secretAtStart, providerLog, kstream, nInvocations, ppc, event,
                 data, slugified_data, record, date_timestamp, handled, response, body, provCalls, failure,
                 streamAtStart>>
  /\ UNCHANGED cvars

\* kinesis_client.put_record raises
put_record_raises ==
  /\ ppc = "publish"
  /\ pubCalls' = pubCalls + 1
  /\ ppc' = "failed"
  /\ failure' = "publish"
  /\ response' = "error"
  /\ UNCHANGED <<secret_arn, secretString, pstate, alpha_vantage_key, secretReads,
                 secretAtStart, providerLog, kstream, nInvocations, event, data,
                 slugified_data, record, date_timestamp, handled, body, provCalls, streamAtStart>>
  /\ UNCHANGED cvars

\* lambda_handler returns its statusCode-200 response
producer_returns ==
  /\ ppc = "published"
  /\ ppc' = "done"
  /\ response' = "200"
  /\ body' = [k \in {K_last_refreshed, K_from_symbol, K_to_symbol} |-> handled[k]]
  /\ UNCHANGED <<secret_arn, secretString, pstate, alpha_vantage_key, secretReads,
                 secretAtStart, providerLog, kstream, nInvocations, event, data,
                 slugified_data, record, date_timestamp, handled, provCalls, pubCalls, failure,
                 streamAtStart>>
  /\ UNCHANGED cvars

(***************************************************************************)
(* The Consumer: lambda/data_consumer.py.                                  *)
(*                                                                         *)
(* An envelope is [kinesis |-> [data], SequenceNumber].  Its data is a     *)
(* base64 text, kept as what decoding it finds: whether it is base64 at    *)
(* all (b64), whether the bytes are a JSON object (json), and the object's *)
(* members.                                                                *)
(***************************************************************************)
Payload(b64, json, members) == [b64 |-> b64, json |-> json, members |-> members]

\* the stream's encoding of a published message: base64 of the Data blob
StreamData(Data) == Payload(TRUE, TRUE, Data)

Envelope(seq, payload) == [kinesis |-> [data |-> payload], SequenceNumber |-> seq]

K_exchange_rate == <<"e", "x", "c", "h", "a", "n", "g", "e", "_", "r", "a", "t", "e">>

K_bid_price == <<"b", "i", "d", "_", "p", "r", "i", "c", "e">>

\* the attribute that is the table's primary key
TableKey == K_ticker

QuoteA ==
  (K_ticker :> <<Quote>> \o <<"U", "S", "D", "/", "E", "U", "R">> \o <<Quote>>) @@ (K_exchange_rate :> <<"0", ".", "9", "2", "1", "5">>)

QuoteB ==
  (K_ticker :> <<Quote>> \o <<"U", "S", "D", "/", "E", "U", "R">> \o <<Quote>>) @@ (K_bid_price :> <<"1", ".", "5">>)

QuoteC ==
  (K_ticker :> <<Quote>> \o <<"E", "U", "R", "/", "J", "P", "Y">> \o <<Quote>>) @@ (K_exchange_rate :> <<"1", "6", "1", ".", "0", "7">>)

\* the envelopes the stream may deliver: three quotes, two of them with the same
\* primary key, and two malformed payloads
E1 == Envelope("s1", Payload(TRUE, TRUE, QuoteA))

E2 == Envelope("s2", Payload(TRUE, TRUE, QuoteB))

E3 == Envelope("s3", Payload(FALSE, FALSE, EmptyDict))

E4 == Envelope("s4", Payload(TRUE, FALSE, EmptyDict))

E5 == Envelope("s5", Payload(TRUE, TRUE, QuoteC))

Envelopes == {E1, E2, E3, E4, E5}

ConcurrentEnvelopes == {E1, E2, E3}

Batches(envs, n) == UNION {[1..m -> envs] : m \in 0..n}

\* process_record, lines 14-16: b64decode, decode('utf-8'), json.loads
decode(rec) ==
  LET d == rec.kinesis.data
  IN  IF ~d.b64 THEN [ok |-> FALSE, item |-> EmptyDict]        \* binascii.Error
      ELSE IF ~d.json THEN [ok |-> FALSE, item |-> EmptyDict]  \* JSONDecodeError
      ELSE [ok |-> TRUE, item |-> json_loads(d.members)]

\* a faulty variant of put_item that merges the item's attributes into the stored one
update_item(tbl, it) ==
  LET pk == it[TableKey]
  IN  DictSet(tbl, pk, IF pk \in DOMAIN tbl THEN DictUpdate(tbl[pk], it) ELSE it)

\* the table after put_item(Item=item): the item replaces the one of its key
put_item(tbl, it) == DictSet(tbl, it[TableKey], it)

Invocations == {1, 2}

InitConsumerVars ==
  /\ cpc = [i \in Invocations |-> "idle"]
  /\ batch = [i \in Invocations |-> <<>>]
  /\ idx = [i \in Invocations |-> 0]
  /\ item = [i \in Invocations |-> EmptyDict]
  /\ ctrace = [i \in Invocations |-> <<>>]
  /\ cfail = [i \in Invocations |-> "none"]
  /\ cresponse = [i \in Invocations |-> "none"]
  /\ table = EmptyDict
  /\ lastApplied = EmptyDict
  /\ deleted = {}

\* the runtime hands invocation i a batch: lambda_handler(event, context)
Deliver(i, b) ==
  /\ cpc[i] = "idle"
  /\ cpc' = [cpc EXCEPT ![i] = "loop"]
  /\ batch' = [batch EXCEPT ![i] = b]
  /\ idx' = [idx EXCEPT ![i] = 1]
  /\ UNCHANGED <<item, ctrace, cfail, cresponse, table, lastApplied, deleted>>
  /\ UNCHANGED pvars

Current(i) == batch[i][idx[i]]

\* a faulty variant of process_record_starts that skips a payload it cannot decode
process_record_starts_skipping(i) ==
  /\ cpc[i] = "loop"
  /\ idx[i] <= Len(batch[i])
  /\ LET r == decode(Current(i))
     IN  IF r.ok
           THEN /\ item' = [item EXCEPT ![i] = r.item]
                /\ ctrace' = [ctrace EXCEPT
                               ![i] = Append(@, <<"put_call", Current(i).SequenceNumber>>)]
                /\ cpc' = [cpc EXCEPT ![i] = "put"]
                /\ UNCHANGED idx
           ELSE /\ idx' = [idx EXCEPT ![i] = @ + 1]
                /\ UNCHANGED <<item, ctrace, cpc>>
  /\ UNCHANGED <<batch, cfail, cresponse, table, lastApplied, deleted>>
  /\ UNCHANGED pvars

\* the loop takes the next envelope: process_record decodes it and calls put_item
process_record_starts(i) ==
  /\ cpc[i] = "loop"
  /\ idx[i] <= Len(batch[i])
  /\ LET r == decode(Current(i))
     IN  IF r.ok
           THEN /\ item' = [item EXCEPT ![i] = r.item]
                /\ ctrace' = [ctrace EXCEPT
                               ![i] = Append(@, <<"put_call", Current(i).SequenceNumber>>)]
                /\ cpc' = [cpc EXCEPT ![i] = "put"]
                /\ UNCHANGED <<cfail, cresponse>>
           ELSE /\ cpc' = [cpc EXCEPT ![i] = "failed"]
                /\ cfail' = [cfail EXCEPT ![i] = "decode"]
                /\ cresponse' = [cresponse EXCEPT ![i] = "error"]
                /\ UNCHANGED <<item, ctrace>>
  /\ UNCHANGED <<batch, idx, table, lastApplied, deleted>>
  /\ UNCHANGED pvars

\* a faulty variant of put_item_returns that goes on to the next envelope, deleting nothing
put_item_returns_no_delete(i) ==
  /\ cpc[i] = "put"
  /\ TableKey \in DOMAIN item[i]
  /\ table' = put_item(table, item[i])
  /\ lastApplied' = DictSet(lastApplied, item[i][TableKey], Current(i))
  /\ ctrace' = [ctrace EXCEPT ![i] = @ \o << <<"put_ret", Current(i).SequenceNumber>> >>]
  /\ idx' = [idx EXCEPT ![i] = @ + 1]
  /\ cpc' = [cpc EXCEPT ![i] = "loop"]
  /\ UNCHANGED <<batch, item, cfail, cresponse, deleted>>
  /\ UNCHANGED pvars

\* put_item returns, the table having applied the write; process_record calls
\* delete_record with the envelope's SequenceNumber
put_item_returns(i) ==
  /\ cpc[i] = "put"
  /\ TableKey \in DOMAIN item[i]
  /\ table' = put_item(table, item[i])
  /\ lastApplied' = DictSet(lastApplied, item[i][TableKey], Current(i))
  /\ ctrace' = [ctrace EXCEPT ![i] = @ \o << <<"put_ret", Current(i).SequenceNumber>>,
                                             <<"del_call", Current(i).SequenceNumber>> >>]
  /\ cpc' = [cpc EXCEPT ![i] = "del"]
  /\ UNCHANGED <<batch, idx, item, cfail, cresponse, deleted>>
  /\ UNCHANGED pvars

\* put_item raises: the request was refused or lost (the table unchanged), or its
\* answer was lost after the table applied it
put_item_raises(i) ==
  /\ cpc[i] = "put"
  /\ \/ UNCHANGED <<table, lastApplied>>
     \/ /\ TableKey \in DOMAIN item[i]
        /\ table' = put_item(table, item[i])
        /\ lastApplied' = DictSet(lastApplied, item[i][TableKey], Current(i))
  /\ ctrace' = [ctrace EXCEPT ![i] = Append(@, <<"put_err", Current(i).SequenceNumber>>)]
  /\ cpc' = [cpc EXCEPT ![i] = "failed"]
  /\ cfail' = [cfail EXCEPT ![i] = "put"]
  /\ cresponse' = [cresponse EXCEPT ![i] = "error"]
  /\ UNCHANGED <<batch, idx, item, deleted>>
  /\ UNCHANGED pvars

\* delete_record returns; the loop moves to the next envelope
delete_record_returns(i) ==
  /\ cpc[i] = "del"
  /\ deleted' = deleted \cup {Current(i).SequenceNumber}
  /\ ctrace' = [ctrace EXCEPT ![i] = Append(@, <<"del_ret", Current(i).SequenceNumber>>)]
  /\ idx' = [idx EXCEPT ![i] = @ + 1]
  /\ cpc' = [cpc EXCEPT ![i] = "loop"]
  /\ UNCHANGED <<batch, item, cfail, cresponse, table, lastApplied>>
  /\ UNCHANGED pvars

\* delete_record raises
delete_record_raises(i) ==
  /\ cpc[i] = "del"
  /\ ctrace' = [ctrace EXCEPT ![i] = Append(@, <<"del_err", Current(i).SequenceNumber>>)]
  /\ cpc' = [cpc EXCEPT ![i] = "failed"]
  /\ cfail' = [cfail EXCEPT ![i] = "delete"]
  /\ cresponse' = [cresponse EXCEPT ![i] = "error"]
  /\ UNCHANGED <<batch, idx, item, table, lastApplied, deleted>>
  /\ UNCHANGED pvars

\* the loop is over: lambda_handler returns its statusCode-200 response
consumer_returns(i) ==
  /\ cpc[i] = "loop"
  /\ idx[i] > Len(batch[i])
  /\ cpc' = [cpc EXCEPT ![i] = "done"]
  /\ cresponse' = [cresponse EXCEPT ![i] = "200"]
  /\ UNCHANGED <<batch, idx, item, ctrace, cfail, table, lastApplied, deleted>>
  /\ UNCHANGED pvars

(***************************************************************************)
(* The specifications: one Producer process; one Consumer invocation; two  *)
(* Consumer invocations running concurrently on batches that may share     *)
(* envelopes (a redelivery).                                               *)
(***************************************************************************)
vars == <<pvars, cvars>>

\* the Producer process before its module is loaded; no Consumer runs
InitProducer == InitProducerVars(BOOLEAN, Secrets, "cold") /\ InitConsumerVars

NextProducer ==
  \/ get_alpha_vantage_key
  \/ RotateSecret
  \/ \E e \in Events : Invoke(e)
  \/ \E d \in ProviderResponses, ts \in Timestamps : fetch_returns(d, ts)
  \/ fetch_raises
  \/ put_record_returns
  \/ put_record_raises
  \/ producer_returns

SpecProducer == InitProducer /\ [][NextProducer]_vars

\* the Consumer before any batch is delivered; no Producer runs
InitConsumer == InitProducerVars({FALSE}, {"key-v1"}, "off") /\ InitConsumerVars

NextConsumer ==
  \/ \E b \in Batches(Envelopes, MaxBatch) : Deliver(1, b)
  \/ process_record_starts(1)
  \/ put_item_returns(1)
  \/ put_item_raises(1)
  \/ delete_record_returns(1)
  \/ delete_record_raises(1)
  \/ consumer_returns(1)

SpecConsumer == InitConsumer /\ [][NextConsumer]_vars

NextConcurrent ==
  \E i \in Invocations :
    \/ \E b \in Batches(ConcurrentEnvelopes, MaxConcurrentBatch) : Deliver(i, b)
    \/ process_record_starts(i)
    \/ put_item_returns(i)
    \/ put_item_raises(i)
    \/ delete_record_returns(i)
    \/ delete_record_raises(i)
    \/ consumer_returns(i)

SpecConcurrent == InitConsumer /\ [][NextConcurrent]_vars
(***************************************************************************)
(* Properties of the Consumer.                                             *)
(***************************************************************************)
\* the calls and returns of envelopes 1..k of batch b, each handled in full
RECURSIVE FullTrace(_, _)
FullTrace(b, k) ==
  IF k = 0 THEN <<>>
  ELSE FullTrace(b, k - 1) \o << <<"put_call", b[k].SequenceNumber>>,
                                 <<"put_ret", b[k].SequenceNumber>>,
                                 <<"del_call", b[k].SequenceNumber>>,
                                 <<"del_ret", b[k].SequenceNumber>> >>

Calls(i, kind) == {p \in 1..Len(ctrace[i]) : ctrace[i][p][1] = kind}

\* C1: in every Consumer invocation the external calls are, envelope by envelope in
\* the batch's order, one put_item call, its return, one delete_record call with that
\* envelope's SequenceNumber, its return: a deletion is issued only right after the
\* same envelope's write has returned, the next envelope's write only after the
\* deletion has returned, and only the last call made may have raised instead.
C1_WriteThenDeleteInOrder ==
  \A i \in Invocations :
    /\ Len(ctrace[i]) <= 4 * Len(batch[i])
    /\ \A p \in 1..Len(ctrace[i]) :
         LET ev    == ctrace[i][p]
             phase == ((p - 1) % 4) + 1
         IN  /\ ev[2] = batch[i][((p - 1) \div 4) + 1].SequenceNumber
             /\ \/ ev[1] = <<"put_call", "put_ret", "del_call", "del_ret">>[phase]
                \/ /\ p = Len(ctrace[i])
                   /\ cpc[i] = "failed"
                   /\ phase \in {2, 4}
                   /\ ev[1] = (IF phase = 2 THEN "put_err" ELSE "del_err")
    /\ \A j \in 1..Len(batch[i]) :
         (j < idx[i] \/ cpc[i] = "done")
           => /\ Len(ctrace[i]) >= 4 * j
              /\ \A q \in 1..4 : ctrace[i][4 * (j - 1) + q] = FullTrace(batch[i], j)[4 * (j - 1) + q]

\* a batch of three handled to the end: twelve calls and returns
C1_Witness ==
  /\ cpc[1] = "done"
  /\ Len(batch[1]) = 3
  /\ ctrace[1] = FullTrace(batch[1], 3)

\* C2: when envelope k is the first whose decode, parse or write fails, the invocation
\* ends in failure with no 200 response, envelopes 1..k-1 have each been written and
\* deleted once, envelope k is not deleted (and is written at most by the call that
\* raised), and no call is ever made for envelopes k+1..n; a payload that cannot be
\* decoded at position k bounds the calls of the invocation to envelopes 1..k-1.
C2_FirstFailureAborts ==
  \A i \in Invocations :
    /\ (cpc[i] = "failed" /\ cfail[i] \in {"decode", "put"})
         => /\ cresponse[i] = "error"
            /\ ctrace[i] =
                 FullTrace(batch[i], idx[i] - 1)
                   \o (IF cfail[i] = "put"
                         THEN << <<"put_call", Current(i).SequenceNumber>>,
                                 <<"put_err", Current(i).SequenceNumber>> >>
                         ELSE <<>>)
    /\ \A k \in 1..Len(batch[i]) :
         ~decode(batch[i][k]).ok
           => /\ Len(ctrace[i]) <= 4 * (k - 1)
              /\ cresponse[i] # "200"
              /\ idx[i] <= k
    /\ (/\ Len(batch[i]) = 3
        /\ decode(batch[i][1]).ok
        /\ ~decode(batch[i][2]).ok
        /\ cpc[i] = "failed"
        /\ cfail[i] = "decode")
         => /\ Cardinality(Calls(i, "put_call")) = 1
            /\ Cardinality(Calls(i, "del_call")) = 1

\* a batch of three whose second payload is malformed, after the failure
C2_Witness ==
  /\ Len(batch[1]) = 3
  /\ ~decode(batch[1][2]).ok
  /\ decode(batch[1][3]).ok
  /\ cpc[1] = "failed"
  /\ cfail[1] = "decode"
  /\ ctrace[1] = FullTrace(batch[1], 1)

\* C10: under any interleaving of concurrent invocations the item stored under a
\* primary key is the full decoded record of one envelope written with that key, the
\* one whose write the table applied last, and every delete_record call, hence every
\* deletion, follows the return of the same invocation's write of that envelope.
C10_OverwriteNotMerge ==
  /\ DOMAIN table = DOMAIN lastApplied
  /\ \A pk \in DOMAIN table :
       /\ decode(lastApplied[pk]).ok
       /\ table[pk] = decode(lastApplied[pk]).item
       /\ table[pk][TableKey] = pk
       /\ \E i \in Invocations :
            \E p \in Calls(i, "put_call") : ctrace[i][p][2] = lastApplied[pk].SequenceNumber
  /\ \A i \in Invocations :
       \A q \in Calls(i, "del_call") :
         q > 1 /\ ctrace[i][q - 1] = <<"put_ret", ctrace[i][q][2]>>
  /\ \A s \in deleted :
       \E i \in Invocations :
         \E q \in Calls(i, "del_ret") :
           ctrace[i][q][2] = s /\ q > 2 /\ ctrace[i][q - 2] = <<"put_ret", s>>

\* envelope s1 was delivered to both invocations, one of which also wrote s2 under
\* the same key; the table holds s1's record, written over s2's
C10_Witness ==
  \E i, j \in Invocations :
    /\ i # j
    /\ \E p \in Calls(i, "put_ret") : ctrace[i][p][2] = "s1"
    /\ \E p \in Calls(i, "put_ret") : ctrace[i][p][2] = "s2"
    /\ \E p \in Calls(j, "put_ret") : ctrace[j][p][2] = "s1"
    /\ "s1" \in deleted
    /\ lastApplied[decode(E2).item[TableKey]] = E1
    /\ cpc[i] = "done"
    /\ cpc[j] = "done"

(***************************************************************************)
(* Properties of the Producer.                                             *)
(***************************************************************************)
Published == ppc \in {"published", "done"}

LastMessage == kstream[Len(kstream)]

\* C3: an invocation whose provider call and publish call both succeed has appended
\* exactly one message to the stream, and the record handle_event returns is the
\* record whose serialization is that message's Data.
C3_OneMessageSameRecord ==
  Published
    => /\ failure = "none"
       /\ Len(kstream) = streamAtStart + 1
       /\ LastMessage.Data = json_dumps(handled)
       /\ DOMAIN handled = DOMAIN record
       /\ \A k \in DOMAIN record : handled[k] = record[k]

\* the second invocation of a process returned 200 after publishing its message
C3_Witness ==
  /\ ppc = "done"
  /\ response = "200"
  /\ nInvocations = 2
  /\ streamAtStart = 1
  /\ Len(kstream) = 2

\* C4: an invocation calls the provider at most once and put_record at most once; a
\* provider failure publishes nothing and a publish failure is not retried, and in
\* both cases the invocation fails with no 200 response.
C4_NoRetry ==
  /\ provCalls <= 1
  /\ pubCalls <= 1
  /\ failure = "provider"
       => /\ pubCalls = 0
          /\ Len(kstream) = streamAtStart
          /\ ppc = "failed"
          /\ response = "error"
  /\ failure = "publish"
       => /\ provCalls = 1
          /\ pubCalls = 1
          /\ ppc = "failed"
          /\ response = "error"
  /\ response = "200" => failure = "none"

\* a publish call has raised, in a process that had published before
C4_Witness ==
  /\ failure = "publish"
  /\ ppc = "failed"
  /\ streamAtStart = 1

\* C5: without ALPHA_VANTAGE_SECRET_ARN the process makes no secret-store request, no
\* provider request and no publish, never becomes ready and is handed no invocation.
C5_MissingArnIsFatal ==
  ~secret_arn
    => /\ pstate \in {"cold", "crashed"}
       /\ secretReads = 0
       /\ providerLog = <<>>
       /\ kstream = <<>>
       /\ nInvocations = 0
       /\ ppc = "idle"

\* the module's load has failed for want of the identifier
C5_Witness == ~secret_arn /\ pstate = "crashed"

\* C6: a process that serves invocations has read the secret store exactly once, at
\* its start; its cached key is the value read then, and every provider call uses it,
\* whatever the stored secret has become since.
C6_KeyReadOnce ==
  pstate = "ready"
    => /\ secretReads = 1
       /\ alpha_vantage_key = secretAtStart
       /\ \A n \in 1..Len(providerLog) : providerLog[n].key = secretAtStart

\* a provider call made after the stored secret was rotated
C6_Witness ==
  /\ pstate = "ready"
  /\ \E n \in 1..Len(providerLog) : providerLog[n].stored # providerLog[n].key

\* pk is the first 10 characters of s (all of s when it is shorter)
IsDatePrefix(pk, s) ==
  /\ Len(pk) <= Len(s)
  /\ \A n \in 1..Len(pk) : pk[n] = s[n]
  /\ Len(pk) = 10 \/ (Len(pk) = Len(s) /\ Len(s) < 10)

\* C7: the published message's partition key is the first 10 characters of the
\* record's last_refreshed, and the published record's from_symbol, to_symbol and
\* ticker are the request's from, to and "from/to", whatever the provider sent; USD,
\* EUR and "2024-01-15 10:00:00" give the key "2024-01-15" and the ticker "USD/EUR".
C7_PartitionKeyAndSymbols ==
  Published
    => LET published == json_loads(LastMessage.Data)
       IN  /\ IsDatePrefix(LastMessage.PartitionKey, record[K_last_refreshed].v)
           /\ published[K_last_refreshed] = record[K_last_refreshed]
           /\ published[K_from_symbol] = PyStr(event.from)
           /\ published[K_to_symbol] = PyStr(event.to)
           /\ published[K_ticker] = PyStr(event.from \o <<"/">> \o event.to)
           /\ (/\ event = [from |-> <<"U", "S", "D">>, to |-> <<"E", "U", "R">>]
               /\ \E n \in 1..Len(data) :
                    data[n] = <<<<"6", ".", " ", "L", "a", "s", "t", " ", "R", "e", "f", "r", "e", "s", "h", "e", "d">>, <<"2", "0", "2", "4", "-", "0", "1", "-", "1", "5", " ", "1", "0", ":", "0", "0", ":", "0", "0">>>>
               /\ \A n \in 1..Len(data) :
                    slug(data[n][1]) = K_last_refreshed => data[n][2] = <<"2", "0", "2", "4", "-", "0", "1", "-", "1", "5", " ", "1", "0", ":", "0", "0", ":", "0", "0">>)
                => /\ LastMessage.PartitionKey = <<"2", "0", "2", "4", "-", "0", "1", "-", "1", "5">>
                   /\ published[K_ticker] = PyStr(<<"U", "S", "D", "/", "E", "U", "R">>)

\* a message is published for a response that itself carries a "Ticker" field
C7_Witness ==
  /\ Published
  /\ event = [from |-> <<"U", "S", "D">>, to |-> <<"E", "U", "R">>]
  /\ \E n \in 1..Len(data) : data[n] = <<<<"a", ".", "b", ".", " ", "T", "i", "c", "k", "e", "r", " ">>, <<"X", "Y", "Z">>>>
  /\ LastMessage.PartitionKey = <<"2", "0", "2", "4", "-", "0", "1", "-", "1", "5">>

\* two values are the same string, or the same finite number
SameValue(a, b) ==
  IF a.t = "str" \/ b.t = "str" THEN a.t = b.t /\ a.v = b.v
  ELSE a.v.kind = "fin" /\ a.v = b.v

\* C8: the record a published message decodes to (base64, JSON with
\* parse_float=Decimal) equals the record the Producer built, field by field, and its
\* numeric fields hold exactly the decimal value of the provider's numeric strings.
C8_RoundTripExact ==
  Published
    => LET r == decode(Envelope("s0", StreamData(LastMessage.Data)))
       IN  /\ r.ok
           /\ DOMAIN r.item = DOMAIN record
           /\ \A k \in DOMAIN record : SameValue(r.item[k], record[k])
           /\ \A n \in 1..Len(data) :
                LET k == slug(data[n][1])
                IN  (/\ float_accepts(data[n][2])
                     /\ k \notin DOMAIN added_fields(event, <<>>)
                     /\ \A n2 \in (n + 1)..Len(data) : slug(data[n2][1]) # k)
                      => /\ r.item[k].t = "Decimal"
                         /\ r.item[k].v = DecimalOf(data[n][2])

Fetched == data # <<>>

\* each space becomes an underscore, each letter its lower case
Normalized(c) == IF c = " " THEN "_" ELSE lower_char(c)

\* k is what follows the last '.' of label, without the whitespace around it, with
\* Normalized applied to each character
IsKeyOf(k, label) ==
  \E p \in 0..Len(label) :
    /\ p = 0 \/ label[p] = "."
    /\ \A q \in (p + 1)..Len(label) : label[q] # "."
    /\ LET inner == {q \in (p + 1)..Len(label) : label[q] \notin Whitespace}
       IN  IF inner = {} THEN k = <<>>
           ELSE \E a \in inner :
                  /\ \A q \in inner : a <= q
                  /\ \E b \in inner :
                       /\ \A q \in inner : q <= b
                       /\ Len(k) = b - a + 1
                       /\ \A n \in 1..Len(k) : k[n] = Normalized(label[a + n - 1])

\* C9, amended: cleanup maps each field label to the segment after its last '.',
\* stripped of surrounding whitespace, with every space character replaced by one
\* underscore and lower-cased; the result has exactly the normalized keys as its
\* keys, each with the parsed value of a field of the response that carried it.
C9_CleanupKeys ==
  Fetched
    => /\ \A n \in 1..Len(data) :
            \E k \in DOMAIN slugified_data : IsKeyOf(k, data[n][1])
       /\ \A k \in DOMAIN slugified_data :
            \E n \in 1..Len(data) :
              /\ IsKeyOf(k, data[n][1])
              /\ slugified_data[k] = parseFloat(data[n][2])

\* a label with two adjacent spaces has been cleaned up: "8.  Bid  Price"
C9_Witness ==
  /\ Fetched
  /\ <<"b", "i", "d", "_", "_", "p", "r", "i", "c", "e">> \in DOMAIN slugified_data
  /\ \E n \in 1..Len(data) : data[n][1] = <<"8", ".", " ", " ", "B", "i", "d", " ", " ", "P", "r", "i", "c", "e">>

\* the words of a stripped segment joined by single underscores
RECURSIVE JoinWords(_)
JoinWords(s) ==
  IF s = <<>> THEN <<>>
  ELSE IF s[1] \notin Whitespace THEN <<s[1]>> \o JoinWords(Tail(s))
  ELSE IF Len(s) > 1 /\ s[2] \in Whitespace THEN JoinWords(Tail(s))
  ELSE <<"_">> \o JoinWords(Tail(s))

WordsJoinedKey(label) == lower(JoinWords(strip(split_last(label))))

\* C9 as stated: the key of a label is its last segment's words joined with
\* underscores, lower-cased
C9_WordsJoinedWithUnderscores ==
  Fetched
    => /\ \A n \in 1..Len(data) : WordsJoinedKey(data[n][1]) \in DOMAIN slugified_data
       /\ \A k \in DOMAIN slugified_data :
            \E n \in 1..Len(data) :
              /\ k = WordsJoinedKey(data[n][1])
              /\ slugified_data[k] = parseFloat(data[n][2])
====
